---- MODULE Spec2Model ----
(***************************************************************************)
(* A model of the write-ahead log of package wal (Wal, NewWal, Write,      *)
(* Sync, Close, houseKeeping, rotateLog, RecoverFromCheckpoint) and of the *)
(* segment files it keeps in the active and the archival directory.        *)
(*                                                                         *)
(* Three threads of execution use one Wal object: "app" calls Write, "hk"  *)
(* is the houseKeeping goroutine, "ctl" calls Close, Sync and              *)
(* RecoverFromCheckpoint.  Write and houseKeeping take wal.lock; Close,    *)
(* Sync and RecoverFromCheckpoint do not, so their statements interleave   *)
(* with the statements of the lock holder.  One step of the model is one   *)
(* statement of a Wal method (a library call such as bufio.Writer.Flush or *)
(* os.File.Close is one step).                                             *)
(*                                                                         *)
(* A segment file is the sequence of records after its 16-byte header.     *)
(* bufio.Writer's 4096-byte capacity exceeds everything the bounded model  *)
(* stages, so staging never flushes on its own.                            *)
(***************************************************************************)
EXTENDS Integers, Sequences, FiniteSets, TLC

\* ---------------------------------------------------------------- bounds
MaxLsn == 3
MaxSeg == 2
MaxOpens == 2

\* ------------------------------------------------------ program constants
HeaderSize == 16
SizePrefix == 4

Idx == 0..MaxSeg
Threads == {"app", "hk", "ctl"}
DataLens == {0, 1}
FileSizes == {41}
SegmentBudgets == {1, 2}
IoCalls ==
  {"MkdirAll", "Create", "WriteHeader", "Flush", "Sync", "Stat", "Close",
   "Rename"}

VARIABLES
  activeDir,            \* <logDirectory>/wal-segment-<N>.wal
  archivalDir,          \* data/archival/wal-segment-<N>.wal
  maxFileSize, maxSegments, triggerFSync,
  alive,                \* a Wal object exists in the running process
  opens,                \* calls of NewWal so far
  fault,                \* the system call that will fail next, or "none"
  lastLogSequenceNo, lastCheckpointLSN, currentSegmentIndex,
  currentSegment,       \* the *os.File: [seg, closed]
  bufferWriter,         \* the *bufio.Writer: [data, err]
  syncTimer,            \* TRUE: the timer is armed and will fire
  cancelled,            \* wal.context is done
  hkExited,             \* houseKeeping has returned
  lock,                 \* holder of wal.lock: "none", "app" or "hk"
  pc, op, rec,          \* per thread: position, running method, record in hand
  snap,                 \* the Appends acknowledged when "ctl" began its Sync
  anchor,               \* RecoverFromCheckpoint: the checkpoint found
  recovered,            \* result of the last RecoverFromCheckpoint
  emitted,              \* LSNs given to records in this session, in order
  acked,                \* DATA records whose Write returned nil
  delivered,            \* records replayed by the last RecoverFromCheckpoint
  closeRet,             \* result of Close: "none" until it returns
  overlap,              \* the Write in progress has run beside Close
  raced                 \* the acknowledged records of such Writes

cfgVars == <<maxFileSize, maxSegments, triggerFSync>>
diskVars == <<activeDir, archivalDir>>
walVars == <<lastLogSequenceNo, lastCheckpointLSN, currentSegmentIndex,
             currentSegment, bufferWriter, syncTimer, cancelled, hkExited>>
thrVars == <<lock, pc, op, rec, snap, anchor, recovered>>
histVars == <<emitted, acked, delivered, closeRet, overlap, raced>>
sessVars == <<maxFileSize, maxSegments, triggerFSync, alive, opens>>
procVars == <<maxFileSize, maxSegments, triggerFSync, alive, opens, fault>>
ctlVars == <<snap, anchor, recovered, delivered>>
vars == <<activeDir, archivalDir, maxFileSize, maxSegments, triggerFSync,
          alive, opens, fault, lastLogSequenceNo, lastCheckpointLSN,
          currentSegmentIndex, currentSegment, bufferWriter, syncTimer,
          cancelled, hkExited, lock, pc, op, rec, snap, anchor, recovered,
          emitted, acked, delivered, closeRet, overlap, raced>>

\* ---------------------------------------------------------------- records
\* crc: the stored CRC matches the data and the LSN (ValidDataIntegrity).
NoRec == [lsn |-> 0, type |-> "DATA", dlen |-> 0, ep |-> 0, crc |-> TRUE]
NoHeader == -1
\* tail: what follows the last whole frame of a file. "none"; "prefix", one to
\* three bytes of a size prefix; "size", a whole size prefix and no byte of
\* its record; "data", a size prefix and fewer record bytes than it
\* announces; "buried", such a remainder with later frames written after it.
Tails == {"prefix", "size", "data"}

NoFile ==
  [ex |-> FALSE, hdr |-> NoHeader, recs |-> <<>>, syn |-> 0, tail |-> "none"]
NoAnchor == [lsn |-> 0, seg |-> 0]

\* Length of proto.Marshal(walDataLog): a 2-byte LogSequenceNumber field, a
\* 2-byte Type field unless DATA (the zero value is not encoded), a Data field
\* of 2 + len bytes unless empty, a 6-byte CRC field.
EncodedLen(r) ==
  2 + (IF r.type = "CHECKPOINT" THEN 2 ELSE 0)
    + (IF r.dlen > 0 THEN 2 + r.dlen ELSE 0) + 6

\* binary.Write of the int32 size, then the marshalled bytes.
FramedLen(r) == SizePrefix + EncodedLen(r)

RECURSIVE FramedBytes(_)
FramedBytes(s) == IF s = <<>> THEN 0 ELSE FramedLen(Head(s)) + FramedBytes(Tail(s))

\* fileInfo.Size()
FileSize(f) ==
  (IF f.hdr = NoHeader THEN 0 ELSE HeaderSize) + FramedBytes(f.recs)
    + (IF f.tail = "none" THEN 0 ELSE SizePrefix)

\* bufferWriter.Buffered()
Buffered == FramedBytes(bufferWriter.data)

\* CreateSegmentFile: os.Create (truncating) and the header, whose SegmentID
\* is the index in the file name.
HeaderOnly(k) ==
  [ex |-> TRUE, hdr |-> k, recs |-> <<>>, syn |-> 0, tail |-> "none"]

\* CreateSegmentFile when the write of the header fails: the file is closed
\* and stays, empty.
Headerless ==
  [ex |-> TRUE, hdr |-> NoHeader, recs |-> <<>>, syn |-> 0, tail |-> "none"]

\* ParseSegmentHeader: ErrInvalidHeaderSize for fewer than 16 bytes,
\* otherwise the header with its SegmentID.
ParseSegmentHeader(f) ==
  IF f.hdr = NoHeader THEN [err |-> TRUE, SegmentID |-> 0]
  ELSE [err |-> FALSE, SegmentID |-> f.hdr]

Existing(dir) == {k \in Idx : dir[k].ex}

Max(S) == CHOOSE m \in S : \A x \in S : x <= m
Min(S) == CHOOSE m \in S : \A x \in S : m <= x

\* The comparison of GetLastSegmentFileNo turned round: the lowest index
\* among the files.
GetFirstSegmentFileNo(files) == IF files = {} THEN 0 ELSE Min(files)

\* GetLastSegmentFileNo: the highest index among the files, 0 when none.
GetLastSegmentFileNo(files) == IF files = {} THEN 0 ELSE Max(files)

\* The index comparison of findOldestSegmentFile turned round: the highest
\* index among the files.
findNewestSegmentFile(files) == Max(files)

\* findOldestSegmentFile: the lowest index among the files.
findOldestSegmentFile(files) == Min(files)

\* The error of UnmarshalAndVerifyDataLog is dropped and the loop goes on.
ReadSkipsInvalid(f) == FALSE

\* The read loop returns an error: UnmarshalAndVerifyDataLog does for some
\* record, or binary.Read or io.ReadFull returns io.ErrUnexpectedEOF at a
\* remainder that has some but not all of the bytes asked for (with none of
\* them the error is io.EOF and the loop ends), or the bytes after a
\* remainder are read as its record.
ReadFails(f) ==
  \/ \E i \in 1..Len(f.recs) : ~f.recs[i].crc
  \/ f.tail \in {"prefix", "data", "buried"}

\* ReadAllDataLogs: seek past the header, then every framed record (an error
\* when ReadFails).
ReadAllDataLogs(f) == f.recs

\* getLastLogSequenceNo: the LSN of the last record of the file, 0 when none
\* (an error when ReadFails).
getLastLogSequenceNo(f) ==
  IF f.recs = <<>> THEN 0 ELSE f.recs[Len(f.recs)].lsn


\* The file a segment index names: the active directory first, then the
\* archival directory (os.OpenFile, and again on os.IsNotExist).
SegFile(k) == IF activeDir[k].ex THEN activeDir[k] ELSE archivalDir[k]

\* The file behind the open handle wal.currentSegment.
CurFile == SegFile(currentSegment.seg)

EmptyWriter == [data |-> <<>>, err |-> FALSE]

\* System call c returns an error this time.
Faulty(c) == fault = c

\* The step has made the system calls cs: a pending failure among them has
\* happened.
Called(cs) == fault' = IF fault \in cs THEN "none" ELSE fault

\* ------------------------------------------------------------------- Init
\* An empty log directory, no Wal object yet; NewWal's arguments are fixed
\* for the lifetime of the directory.
Init ==
  /\ activeDir = [k \in Idx |-> NoFile]
  /\ archivalDir = [k \in Idx |-> NoFile]
  /\ maxFileSize \in FileSizes
  /\ maxSegments \in SegmentBudgets
  /\ triggerFSync \in BOOLEAN
  /\ alive = FALSE
  /\ opens = 0
  /\ fault = "none"
  /\ lastLogSequenceNo = 0
  /\ lastCheckpointLSN = 0
  /\ currentSegmentIndex = 0
  /\ currentSegment = [seg |-> 0, closed |-> TRUE]
  /\ bufferWriter = EmptyWriter
  /\ syncTimer = FALSE
  /\ cancelled = FALSE
  /\ hkExited = FALSE
  /\ lock = "none"
  /\ pc = [t \in Threads |-> "idle"]
  /\ op = [t \in Threads |-> "none"]
  /\ rec = [t \in Threads |-> NoRec]
  /\ snap = {}
  /\ anchor = NoAnchor
  /\ recovered = "none"
  /\ emitted = <<>>
  /\ acked = {}
  /\ delivered = <<>>
  /\ closeRet = "none"
  /\ overlap = FALSE
  /\ raced = {}

\* ----------------------------------------------------------------- NewWal
\* CreateANewSegmentFileIfNotExists on the listing that ReadSegmentFiles
\* returned.
CreateANewSegmentFileIfNotExists(dir) ==
  IF Existing(dir) = {}
  THEN [dir EXCEPT ![0] = IF Faulty("WriteHeader") THEN Headerless
                          ELSE HeaderOnly(0)]
  ELSE dir

\* No method is running: every thread's locals are at their zero values.
ThreadsReset ==
  /\ lock' = "none"
  /\ pc' = [t \in Threads |-> "idle"]
  /\ op' = [t \in Threads |-> "none"]
  /\ rec' = [t \in Threads |-> NoRec]
  /\ snap' = {}
  /\ anchor' = NoAnchor
  /\ recovered' = "none"

\* No method of the Wal object is in progress.
Quiet == \A t \in Threads : pc[t] = "idle"

\* NewWal returns nil and the error of CreateANewSegmentFileIfNotExists or of
\* getLastLogSequenceNo: no Wal object, no houseKeeping goroutine.
NewWalFails ==
  /\ alive' = FALSE
  /\ lastLogSequenceNo' = 0
  /\ lastCheckpointLSN' = 0
  /\ currentSegmentIndex' = 0
  /\ currentSegment' = [seg |-> 0, closed |-> TRUE]
  /\ bufferWriter' = EmptyWriter
  /\ syncTimer' = FALSE
  /\ cancelled' = FALSE
  /\ hkExited' = FALSE
  /\ emitted' = <<>>

\* NewWal on the log directory; the error of CreateDirectoryIfNotExists is
\* not looked at.
NewWal ==
  /\ LET files == Existing(activeDir)
         last == GetLastSegmentFileNo(files)
         dir == CreateANewSegmentFileIfNotExists(activeDir)
         lsn == getLastLogSequenceNo(dir[last])
         created == Existing(activeDir) = {}
     IN /\ activeDir' = IF created /\ Faulty("Create") THEN activeDir ELSE dir
        /\ Called({"MkdirAll"}
                  \cup (IF created THEN {"Create", "WriteHeader"} ELSE {}))
        /\ IF \/ created /\ (Faulty("Create") \/ Faulty("WriteHeader"))
              \/ ReadFails(dir[last])
           THEN NewWalFails
           ELSE /\ currentSegmentIndex' = last
                /\ currentSegment' = [seg |-> last, closed |-> FALSE]
                /\ lastLogSequenceNo' = lsn
                /\ emitted' = <<lsn>>
                /\ lastCheckpointLSN' = 0
                /\ bufferWriter' = EmptyWriter
                /\ syncTimer' = TRUE
                /\ cancelled' = FALSE
                /\ hkExited' = FALSE
                /\ alive' = TRUE
  /\ opens' = opens + 1
  /\ ThreadsReset
  /\ acked' = {}
  /\ delivered' = <<>>
  /\ closeRet' = "none"
  /\ overlap' = FALSE
  /\ raced' = {}
  /\ UNCHANGED <<archivalDir, cfgVars>>

\* The first NewWal, on the empty directory.
Open ==
  /\ opens = 0
  /\ NewWal

\* A later NewWal: the process has crashed, or Close has returned and no
\* method of the old object is running.
Reopen ==
  /\ opens > 0 /\ opens < MaxOpens
  /\ alive => (closeRet # "none" /\ Quiet)
  /\ NewWal

\* ------------------------------------------------------- returning, moving
\* Thread t moves on to statement l of the method it runs.
Goto(t, l) ==
  /\ pc' = [pc EXCEPT ![t] = l]
  /\ UNCHANGED <<lock, op, rec, acked, closeRet, overlap, raced>>

\* The method thread t runs returns r ("ok" for nil, "err" for an error); a
\* deferred Unlock releases the lock.
Done(t, r) ==
  /\ pc' = [pc EXCEPT ![t] = "idle"]
  /\ op' = [op EXCEPT ![t] = "none"]
  /\ rec' = [rec EXCEPT ![t] = NoRec]
  /\ lock' = IF lock = t THEN "none" ELSE lock
  /\ acked' = IF op[t] = "Write" /\ r = "ok" THEN acked \cup {rec[t]} ELSE acked
  /\ closeRet' = IF op[t] = "Close" THEN r ELSE closeRet
  /\ overlap' = IF op[t] = "Write" THEN FALSE ELSE overlap
  /\ raced' = IF op[t] = "Write" /\ r = "ok" /\ overlap
              THEN raced \cup {rec[t]} ELSE raced

\* Sync returns r to its caller: Close goes on to close the file after a nil.
SyncReturn(t, r) ==
  IF op[t] = "Close" /\ r = "ok" THEN Goto(t, "cl_close") ELSE Done(t, r)

\* writeDataLogToBuffer returns an error: Write returns it, checkpoint prints
\* it and returns to Sync.
BufferError(t) ==
  IF op[t] = "Write" THEN Done(t, "err") ELSE Goto(t, "s_reset")

\* writeDataLogToBuffer returns nil.
BufferDone(t) ==
  IF op[t] = "Write" THEN Done(t, "ok") ELSE Goto(t, "s_reset")

AlwaysCheckpoint(t) == TRUE

ShouldCheckpoint(t) == op[t] \in {"Tick", "Close", "Sync(true)"}

\* ------------------------------------------------------ flush and fsync
\* bufio.Writer.Flush fails on its sticky error and on a write to a closed file.
FlushFails ==
  \/ bufferWriter.err
  \/ bufferWriter.data # <<>> /\ (currentSegment.closed \/ Faulty("Flush"))

\* os.File.Sync fails on a closed file.
FsyncFails == currentSegment.closed \/ Faulty("Sync")

\* Flush, then fsync when triggerFSync.
SyncFails == FlushFails \/ (triggerFSync /\ FsyncFails)

\* The directory after Flush (and fsync) through wal.currentSegment.
Flushed(dir) ==
  LET k == currentSegment.seg
      out == dir[k].recs \o bufferWriter.data
  IN IF FlushFails \/ ~dir[k].ex THEN dir
     ELSE [dir EXCEPT ![k] = [ex |-> TRUE, hdr |-> dir[k].hdr, recs |-> out,
                              syn |-> IF triggerFSync /\ ~FsyncFails
                                      THEN Len(out) ELSE dir[k].syn,
                              tail |-> IF dir[k].tail = "none"
                                          \/ bufferWriter.data = <<>>
                                       THEN dir[k].tail ELSE "buried"]]

\* The first statements of Sync: Flush and the fsync.
FlushAndFsync ==
  /\ activeDir' = Flushed(activeDir)
  /\ archivalDir' = IF activeDir[currentSegment.seg].ex THEN archivalDir
                    ELSE Flushed(archivalDir)
  /\ bufferWriter' = IF FlushFails THEN [bufferWriter EXCEPT !.err = TRUE]
                     ELSE EmptyWriter
  /\ Called((IF bufferWriter.data # <<>> /\ ~bufferWriter.err
             THEN {"Flush"} ELSE {})
            \cup (IF triggerFSync /\ ~FlushFails THEN {"Sync"} ELSE {}))

\* ------------------------------------------------------------------ Write
\* Write: Lock, then wal.lastLogSequenceNo++.
Write(d) ==
  /\ alive /\ pc["app"] = "idle" /\ lock = "none"
  /\ lastLogSequenceNo < MaxLsn
  /\ lock' = "app"
  /\ lastLogSequenceNo' = lastLogSequenceNo + 1
  /\ pc' = [pc EXCEPT !["app"] = "w_build"]
  /\ op' = [op EXCEPT !["app"] = "Write"]
  /\ rec' = [rec EXCEPT !["app"] = [NoRec EXCEPT !.dlen = d]]
  /\ overlap' = (op["ctl"] = "Close")
  /\ UNCHANGED <<diskVars, procVars, lastCheckpointLSN, currentSegmentIndex,
                 currentSegment, bufferWriter, syncTimer, cancelled, hkExited,
                 ctlVars, emitted, acked, closeRet, raced>>

\* Write: the record literal, which reads wal.lastLogSequenceNo again.
WriteBuild ==
  /\ pc["app"] = "w_build"
  /\ rec' = [rec EXCEPT !["app"] = [lsn |-> lastLogSequenceNo, type |-> "DATA",
                                    dlen |-> rec["app"].dlen, ep |-> opens,
                                    crc |-> TRUE]]
  /\ emitted' = Append(emitted, lastLogSequenceNo)
  /\ pc' = [pc EXCEPT !["app"] = "b_stat"]
  /\ UNCHANGED <<diskVars, procVars, walVars, lock, op, ctlVars, acked,
                 closeRet, overlap, raced>>

\* ------------------------------------------------------------------- Sync
\* houseKeeping: the timer fires, Lock, Sync(true).
Tick ==
  /\ alive /\ ~hkExited /\ syncTimer
  /\ pc["hk"] = "idle" /\ lock = "none"
  /\ syncTimer' = FALSE
  /\ lock' = "hk"
  /\ pc' = [pc EXCEPT !["hk"] = "s_sync"]
  /\ op' = [op EXCEPT !["hk"] = "Tick"]
  /\ UNCHANGED <<diskVars, procVars, lastLogSequenceNo, lastCheckpointLSN,
                 currentSegmentIndex, currentSegment, bufferWriter, cancelled,
                 hkExited, rec, ctlVars, emitted, acked, closeRet, overlap,
                 raced>>

\* houseKeeping: <-wal.context.Done(), return.
HouseKeepingExit ==
  /\ alive /\ cancelled /\ ~hkExited /\ pc["hk"] = "idle"
  /\ hkExited' = TRUE
  /\ UNCHANGED <<diskVars, procVars, lastLogSequenceNo, lastCheckpointLSN,
                 currentSegmentIndex, currentSegment, bufferWriter, syncTimer,
                 cancelled, thrVars, histVars>>

\* What "ctl" forgets when it calls its next method.
CtlCall(name) ==
  /\ alive /\ pc["ctl"] = "idle"
  /\ op' = [op EXCEPT !["ctl"] = name]
  /\ anchor' = NoAnchor
  /\ recovered' = "none"
  /\ delivered' = <<>>

\* A client calls Sync(shouldCheckpointed); the method takes no lock.
SyncCall(shouldCheckpointed) ==
  /\ CtlCall(IF shouldCheckpointed THEN "Sync(true)" ELSE "Sync(false)")
  /\ pc' = [pc EXCEPT !["ctl"] = "s_sync"]
  /\ snap' = acked
  /\ UNCHANGED <<diskVars, procVars, walVars, lock, rec, emitted, acked,
                 closeRet, overlap, raced>>

\* Close: wal.cancel(), then Sync(true); the method takes no lock.
Close ==
  /\ CtlCall("Close")
  /\ closeRet = "none" /\ ~cancelled
  /\ cancelled' = TRUE
  /\ pc' = [pc EXCEPT !["ctl"] = "s_sync"]
  /\ snap' = acked
  /\ overlap' = (pc["app"] # "idle")
  /\ UNCHANGED <<diskVars, procVars, lastLogSequenceNo, lastCheckpointLSN,
                 currentSegmentIndex, currentSegment, bufferWriter, syncTimer,
                 hkExited, lock, rec, emitted, acked, closeRet, raced>>

\* Sync: Flush and fsync; an error returns at once, otherwise checkpoint()
\* when triggerFSync and shouldCheckpointed.
SyncFlush(t) ==
  /\ pc[t] = "s_sync"
  /\ FlushAndFsync
  /\ IF SyncFails THEN SyncReturn(t, "err")
     ELSE IF triggerFSync /\ ShouldCheckpoint(t) THEN Goto(t, "c_inc")
     ELSE Goto(t, "s_reset")
  /\ UNCHANGED <<sessVars, lastLogSequenceNo, lastCheckpointLSN,
                 currentSegmentIndex, currentSegment, syncTimer, cancelled,
                 hkExited, ctlVars, emitted>>

\* checkpoint: wal.lastLogSequenceNo++.
CheckpointInc(t) ==
  /\ pc[t] = "c_inc"
  /\ lastLogSequenceNo < MaxLsn
  /\ lastLogSequenceNo' = lastLogSequenceNo + 1
  /\ Goto(t, "c_set")
  /\ UNCHANGED <<diskVars, procVars, lastCheckpointLSN, currentSegmentIndex,
                 currentSegment, bufferWriter, syncTimer, cancelled, hkExited,
                 ctlVars, emitted>>

\* checkpoint: wal.lastCheckpointLSN = wal.lastLogSequenceNo and the record
\* literal.
checkpoint(t) ==
  /\ pc[t] = "c_set"
  /\ lastCheckpointLSN' = lastLogSequenceNo
  /\ rec' = [rec EXCEPT ![t] = [lsn |-> lastLogSequenceNo,
                                type |-> "CHECKPOINT", dlen |-> 0, ep |-> opens,
                                crc |-> TRUE]]
  /\ emitted' = Append(emitted, lastLogSequenceNo)
  /\ pc' = [pc EXCEPT ![t] = "b_stat"]
  /\ UNCHANGED <<diskVars, procVars, lastLogSequenceNo, currentSegmentIndex,
                 currentSegment, bufferWriter, syncTimer, cancelled, hkExited,
                 lock, op, ctlVars, acked, closeRet, overlap, raced>>

\* Sync returns nil and leaves the timer as it is.
timerLeftStopped(t) ==
  /\ pc[t] = "s_reset"
  /\ SyncReturn(t, "ok")
  /\ UNCHANGED <<diskVars, procVars, lastLogSequenceNo, lastCheckpointLSN,
                 currentSegmentIndex, currentSegment, bufferWriter, syncTimer,
                 cancelled, hkExited, ctlVars, emitted>>

\* Sync: resetTimer and return nil.
resetTimer(t) ==
  /\ pc[t] = "s_reset"
  /\ syncTimer' = TRUE
  /\ SyncReturn(t, "ok")
  /\ UNCHANGED <<diskVars, procVars, lastLogSequenceNo, lastCheckpointLSN,
                 currentSegmentIndex, currentSegment, bufferWriter, cancelled,
                 hkExited, ctlVars, emitted>>

\* os.File.Close fails on a closed file; the handle is closed after it
\* either way.
CloseFails == currentSegment.closed \/ Faulty("Close")

\* Close: wal.currentSegment.Close() after Sync returned nil.
CloseFile(t) ==
  /\ pc[t] = "cl_close"
  /\ currentSegment' = [currentSegment EXCEPT !.closed = TRUE]
  /\ Done(t, IF CloseFails THEN "err" ELSE "ok")
  /\ Called({"Close"})
  /\ UNCHANGED <<diskVars, sessVars, lastLogSequenceNo, lastCheckpointLSN,
                 currentSegmentIndex, bufferWriter, syncTimer, cancelled,
                 hkExited, ctlVars, emitted>>

\* --------------------------------------------------- writeDataLogToBuffer
\* _rotateLog's condition on the marshalled size of the record.
RotationDue(r) ==
  FileSize(CurFile) + Buffered + EncodedLen(r) >= maxFileSize

\* os.File.Stat fails on a closed file.
StatFails == currentSegment.closed \/ Faulty("Stat")

\* _rotateLog: Stat and the size check.
RotateCheck(t) ==
  /\ pc[t] = "b_stat"
  /\ IF StatFails THEN BufferError(t)
     ELSE IF RotationDue(rec[t]) THEN Goto(t, "r_flush")
     ELSE Goto(t, "b_stage")
  /\ Called({"Stat"})
  /\ UNCHANGED <<diskVars, sessVars, walVars, ctlVars, emitted>>

\* rotateLog: Sync(false).
RotateSync(t) ==
  /\ pc[t] = "r_flush"
  /\ FlushAndFsync
  /\ syncTimer' = (syncTimer \/ ~SyncFails)
  /\ IF SyncFails THEN BufferError(t) ELSE Goto(t, "r_close")
  /\ UNCHANGED <<sessVars, lastLogSequenceNo, lastCheckpointLSN,
                 currentSegmentIndex, currentSegment, cancelled, hkExited,
                 ctlVars, emitted>>

\* rotateLog: wal.currentSegment.Close().
RotateClose(t) ==
  /\ pc[t] = "r_close"
  /\ currentSegment' = [currentSegment EXCEPT !.closed = TRUE]
  /\ IF CloseFails THEN BufferError(t) ELSE Goto(t, "r_inc")
  /\ Called({"Close"})
  /\ UNCHANGED <<diskVars, sessVars, lastLogSequenceNo, lastCheckpointLSN,
                 currentSegmentIndex, bufferWriter, syncTimer, cancelled,
                 hkExited, ctlVars, emitted>>

\* rotateLog: wal.currentSegmentIndex++.
RotateInc(t) ==
  /\ pc[t] = "r_inc"
  /\ currentSegmentIndex < MaxSeg
  /\ currentSegmentIndex' = currentSegmentIndex + 1
  /\ Goto(t, "r_arch")
  /\ UNCHANGED <<diskVars, procVars, lastLogSequenceNo, lastCheckpointLSN,
                 currentSegment, bufferWriter, syncTimer, cancelled, hkExited,
                 ctlVars, emitted>>

\* Retention by os.Remove instead of os.Rename: the lowest-indexed file of the
\* log directory is deleted.
deleteOldestSegment ==
  LET files == Existing(activeDir)
      oldest == findOldestSegmentFile(files)
  IN IF files = {} THEN UNCHANGED diskVars
     ELSE /\ activeDir' = [activeDir EXCEPT ![oldest] = NoFile]
          /\ UNCHANGED archivalDir

\* moveOldestSegmentToArchival: os.Rename of the lowest-indexed file of the
\* log directory into data/archival.
moveOldestSegmentToArchival ==
  LET files == Existing(activeDir)
      oldest == findOldestSegmentFile(files)
  IN IF files = {} THEN UNCHANGED diskVars
     ELSE /\ archivalDir' = [archivalDir EXCEPT ![oldest] = activeDir[oldest]]
          /\ activeDir' = [activeDir EXCEPT ![oldest] = NoFile]

ArchiveDue == currentSegmentIndex >= maxSegments

\* moveOldestSegmentToArchival returns the error of os.Rename.
ArchiveFails == Existing(activeDir) # {} /\ Faulty("Rename")

\* rotateLog: retention when currentSegmentIndex >= maxSegments.
RotateArchive(t) ==
  /\ pc[t] = "r_arch"
  /\ IF ArchiveDue /\ ~ArchiveFails THEN moveOldestSegmentToArchival
     ELSE UNCHANGED diskVars
  /\ IF ArchiveDue /\ ArchiveFails THEN BufferError(t) ELSE Goto(t, "r_create")
  /\ Called(IF ArchiveDue /\ Existing(activeDir) # {} THEN {"Rename"} ELSE {})
  /\ UNCHANGED <<sessVars, walVars, ctlVars, emitted>>

\* rotateLog: CreateSegmentFile at currentSegmentIndex, the new handle and a
\* fresh bufio.Writer on it.
RotateCreate(t) ==
  /\ pc[t] = "r_create"
  /\ IF Faulty("Create")
     THEN /\ UNCHANGED <<activeDir, currentSegment, bufferWriter>>
          /\ BufferError(t)
     ELSE IF Faulty("WriteHeader")
     THEN /\ activeDir' = [activeDir EXCEPT ![currentSegmentIndex] = Headerless]
          /\ UNCHANGED <<currentSegment, bufferWriter>>
          /\ BufferError(t)
     ELSE /\ activeDir' = [activeDir EXCEPT
                            ![currentSegmentIndex] =
                               HeaderOnly(currentSegmentIndex)]
          /\ currentSegment' = [seg |-> currentSegmentIndex, closed |-> FALSE]
          /\ bufferWriter' = EmptyWriter
          /\ Goto(t, "b_stage")
  /\ Called({"Create", "WriteHeader"})
  /\ UNCHANGED <<archivalDir, sessVars, lastLogSequenceNo, lastCheckpointLSN,
                 currentSegmentIndex, syncTimer, cancelled, hkExited, ctlVars,
                 emitted>>

\* writeDataLogToBuffer: the size prefix and the marshalled record go into the
\* bufio.Writer (an error once the writer has failed).
Stage(t) ==
  /\ pc[t] = "b_stage"
  /\ IF bufferWriter.err
     THEN /\ UNCHANGED bufferWriter
          /\ BufferError(t)
     ELSE /\ bufferWriter' = [bufferWriter EXCEPT !.data = Append(@, rec[t])]
          /\ BufferDone(t)
  /\ UNCHANGED <<diskVars, procVars, lastLogSequenceNo, lastCheckpointLSN,
                 currentSegmentIndex, currentSegment, syncTimer, cancelled,
                 hkExited, ctlVars, emitted>>

\* -------------------------------------------------- RecoverFromCheckpoint
AnyRecord(r) == TRUE

\* getLastCheckPointLSNWalEntry: records[i].Type == Log_Type_CHECKPOINT.
IsCheckpoint(r) == r.type = "CHECKPOINT"

HasCheckpoint(k) ==
  \E i \in 1..Len(ReadAllDataLogs(SegFile(k))) :
     IsCheckpoint(ReadAllDataLogs(SegFile(k))[i])

\* The last CHECKPOINT record of segment k.
LastCheckpointIn(k) ==
  LET recs == ReadAllDataLogs(SegFile(k))
      i == Max({j \in 1..Len(recs) : IsCheckpoint(recs[j])})
  IN recs[i]

\* getLastCheckPointLSNWalEntry: segments currentSegmentIndex down to 0, a
\* segment in neither directory is skipped.
CheckpointSegments == {k \in 0..currentSegmentIndex : HasCheckpoint(k)}

\* The segments at which the backward scan ends: with the checkpoint found,
\* or with the error of ReadAllDataLogs.
ScanStops ==
  {k \in 0..currentSegmentIndex :
     SegFile(k).ex /\ (ReadFails(SegFile(k)) \/ HasCheckpoint(k))}

\* getLastCheckPointLSNWalEntry returns an error: no checkpoint found, or a
\* segment above every checkpoint cannot be read.
NoAnchorFound == ScanStops = {} \/ ReadFails(SegFile(Max(ScanStops)))

\* The records of a segment with an LSN above the checkpoint's.
RECURSIVE After(_, _)
After(recs, lsn) ==
  IF recs = <<>> THEN <<>>
  ELSE (IF Head(recs).lsn > lsn THEN <<Head(recs)>> ELSE <<>>)
         \o After(Tail(recs), lsn)

\* RecoverFromCheckpoint's loop from segment s: a segment in neither
\* directory or one that cannot be read ends the replay with an error.
RECURSIVE Replay(_, _)
Replay(s, lsn) ==
  IF s > currentSegmentIndex \/ ~SegFile(s).ex \/ ReadFails(SegFile(s))
  THEN <<>>
  ELSE After(ReadAllDataLogs(SegFile(s)), lsn) \o Replay(s + 1, lsn)

ReplayFails(s) ==
  \E k \in s..currentSegmentIndex : ~SegFile(k).ex \/ ReadFails(SegFile(k))

\* RecoverFromCheckpoint: getLastCheckPointLSNWalEntry; the method takes no
\* lock.
RecoverFromCheckpoint ==
  /\ alive /\ pc["ctl"] = "idle"
  /\ delivered' = <<>>
  /\ snap' = {}
  /\ IF NoAnchorFound
     THEN /\ UNCHANGED <<pc, op>>
          /\ recovered' = "err"
          /\ anchor' = NoAnchor
     ELSE /\ pc' = [pc EXCEPT !["ctl"] = "rc_replay"]
          /\ op' = [op EXCEPT !["ctl"] = "Recover"]
          /\ recovered' = "none"
          /\ anchor' = [lsn |-> LastCheckpointIn(Max(CheckpointSegments)).lsn,
                        seg |-> Max(CheckpointSegments)]
  /\ UNCHANGED <<diskVars, procVars, walVars, lock, rec, emitted, acked,
                 closeRet, overlap, raced>>

\* RecoverFromCheckpoint: the replay loop.
RecoverReplay ==
  /\ pc["ctl"] = "rc_replay"
  /\ delivered' = Replay(anchor.seg, anchor.lsn)
  /\ recovered' = IF ReplayFails(anchor.seg) THEN "err" ELSE "ok"
  /\ pc' = [pc EXCEPT !["ctl"] = "idle"]
  /\ op' = [op EXCEPT !["ctl"] = "none"]
  /\ UNCHANGED <<diskVars, procVars, walVars, lock, rec, snap, anchor,
                 emitted, acked, closeRet, overlap, raced>>

\* ------------------------------------------------------------------ crash
\* What a host crash leaves of a file: the bytes the last fsync covered.
Synced(f) == [f EXCEPT !.recs = SubSeq(f.recs, 1, f.syn)]

MemoryLost ==
  /\ alive' = FALSE
  /\ lastLogSequenceNo' = 0
  /\ lastCheckpointLSN' = 0
  /\ currentSegmentIndex' = 0
  /\ currentSegment' = [seg |-> 0, closed |-> TRUE]
  /\ bufferWriter' = EmptyWriter
  /\ syncTimer' = FALSE
  /\ cancelled' = FALSE
  /\ hkExited' = FALSE
  /\ ThreadsReset
  /\ emitted' = <<>>
  /\ acked' = {}
  /\ delivered' = <<>>
  /\ closeRet' = "none"
  /\ overlap' = FALSE
  /\ raced' = {}
  /\ fault' = "none"
  /\ UNCHANGED <<cfgVars, opens>>

\* The process dies: what was written to the files stays.
CrashProcess ==
  /\ alive /\ opens < MaxOpens
  /\ MemoryLost
  /\ UNCHANGED diskVars

\* The host dies: only what an fsync covered stays.
CrashHost ==
  /\ alive /\ opens < MaxOpens
  /\ MemoryLost
  /\ activeDir' = [k \in Idx |-> Synced(activeDir[k])]
  /\ archivalDir' = [k \in Idx |-> Synced(archivalDir[k])]

\* The host dies while the open segment has bytes no fsync has covered: of
\* those, n whole frames and a remainder of the next one stay.
CrashTorn(n, tl) ==
  /\ alive /\ opens < MaxOpens
  /\ LET k == currentSegment.seg
         f == activeDir[k]
     IN /\ f.ex /\ f.tail = "none"
        /\ n \in f.syn..(Len(f.recs) - 1)
        /\ activeDir' =
             [j \in Idx |->
                IF j = k THEN [f EXCEPT !.recs = SubSeq(f.recs, 1, n),
                                        !.tail = tl]
                ELSE Synced(activeDir[j])]
  /\ archivalDir' = [j \in Idx |-> Synced(archivalDir[j])]
  /\ MemoryLost

\* The storage medium damages record i of active segment k, the first damage
\* to the directory, while no Wal object has the directory open.
Corrupt(k, i) ==
  /\ opens > 0
  /\ alive => (closeRet # "none" /\ Quiet)
  /\ activeDir[k].ex /\ i \in 1..Len(activeDir[k].recs)
  /\ \A j \in Idx : ~ReadFails(activeDir[j])
  /\ activeDir' = [activeDir EXCEPT ![k].recs[i].crc = FALSE]
  /\ UNCHANGED <<archivalDir, procVars, walVars, thrVars, histVars>>

\* The environment: the next system call of kind c will return an error.
InjectFault(c) ==
  /\ fault = "none"
  /\ IF c = "MkdirAll" THEN opens = 0 ELSE alive /\ closeRet = "none"
  /\ fault' = c
  /\ UNCHANGED <<diskVars, sessVars, walVars, thrVars, histVars>>

\* ------------------------------------------------------------------- Next
\* One statement of the method thread t is running.
Step(t) ==
  \/ SyncFlush(t)
  \/ CheckpointInc(t)
  \/ checkpoint(t)
  \/ resetTimer(t)
  \/ RotateCheck(t)
  \/ RotateSync(t)
  \/ RotateClose(t)
  \/ RotateInc(t)
  \/ RotateArchive(t)
  \/ RotateCreate(t)
  \/ Stage(t)
  \/ CloseFile(t)

\* A thread calls a method of the Wal object.
Call ==
  \/ \E d \in DataLens : Write(d)
  \/ Tick
  \/ \E c \in BOOLEAN : SyncCall(c)
  \/ Close
  \/ RecoverFromCheckpoint

\* One session of one Wal object on the empty directory, its three threads
\* interleaved statement by statement.
Next ==
  \/ Open
  \/ Call
  \/ WriteBuild
  \/ RecoverReplay
  \/ HouseKeepingExit
  \/ \E t \in Threads : Step(t)

Spec == Init /\ [][Next]_vars

\* One session in which the client only appends and closes: Write, the
\* housekeeper's ticks and Close, interleaved statement by statement.
NextClose ==
  \/ Open
  \/ \E d \in DataLens : Write(d)
  \/ Tick
  \/ Close
  \/ WriteBuild
  \/ HouseKeepingExit
  \/ \E t \in Threads : Step(t)

SpecClose == Init /\ [][NextClose]_vars

\* The lifetime of the log directory: sessions that end in Close or in a
\* crash, each method running to its return before the next is called.
NextLife ==
  \/ Open
  \/ Reopen
  \/ Quiet /\ Call
  \/ WriteBuild
  \/ RecoverReplay
  \/ HouseKeepingExit
  \/ \E t \in Threads : Step(t)
  \/ CrashProcess
  \/ CrashHost

SpecLife == Init /\ [][NextLife]_vars

\* The lifetime of the log directory without crashes: every session ends in
\* Close, each method running to its return before the next is called.
NextSessions ==
  \/ Open
  \/ Reopen
  \/ Quiet /\ Call
  \/ WriteBuild
  \/ RecoverReplay
  \/ HouseKeepingExit
  \/ \E t \in Threads : Step(t)

SpecSessions == Init /\ [][NextSessions]_vars

\* One session in which system calls can fail, each method running to its
\* return before the next is called.
NextFaults ==
  \/ Open
  \/ Quiet /\ \E d \in DataLens : Write(d)
  \/ Quiet /\ Tick
  \/ Quiet /\ \E c \in BOOLEAN : SyncCall(c)
  \/ Quiet /\ Close
  \/ WriteBuild
  \/ HouseKeepingExit
  \/ \E t \in Threads : Step(t)
  \/ \E c \in IoCalls : InjectFault(c)

SpecFaults == Init /\ [][NextFaults]_vars

\* The statements of Write and of a houseKeeping tick.
StepOpen(t) ==
  \/ SyncFlush(t)
  \/ CheckpointInc(t)
  \/ checkpoint(t)
  \/ resetTimer(t)
  \/ RotateCheck(t)
  \/ RotateSync(t)
  \/ RotateClose(t)
  \/ RotateInc(t)
  \/ RotateArchive(t)
  \/ RotateCreate(t)
  \/ Stage(t)

\* An open log that is never closed: the client appends when it likes, the
\* houseKeeping goroutine and a Write that has started are scheduled fairly
\* and the timer fires when it is armed.
NextLive ==
  \/ Open
  \/ \E d \in DataLens : Write(d)
  \/ Tick
  \/ WriteBuild
  \/ \E t \in Threads : StepOpen(t)

SpecLive ==
  /\ Init /\ [][NextLive]_vars
  /\ WF_vars(Tick)
  /\ WF_vars(WriteBuild)
  /\ \A t \in Threads : WF_vars(StepOpen(t))

\* The lifetime of the log directory with host crashes that cut the open
\* segment inside a frame; each method runs to its return before the next is
\* called.
NextTorn ==
  \/ Open
  \/ Reopen
  \/ Quiet /\ \E d \in DataLens : Write(d)
  \/ Quiet /\ Tick
  \/ Quiet /\ Close
  \/ WriteBuild
  \/ HouseKeepingExit
  \/ \E t \in Threads : Step(t)
  \/ \E n \in 0..MaxLsn : \E tl \in Tails : CrashTorn(n, tl)

SpecTorn == Init /\ [][NextTorn]_vars

\* The lifetime of the log directory with damage to stored records between
\* sessions: Write, ticks and Close, each running to its return.
NextCorrupt ==
  \/ Open
  \/ Reopen
  \/ Quiet /\ \E d \in DataLens : Write(d)
  \/ Quiet /\ Tick
  \/ Quiet /\ Close
  \/ WriteBuild
  \/ HouseKeepingExit
  \/ \E t \in Threads : Step(t)
  \/ \E k \in Idx : \E i \in 1..MaxLsn : Corrupt(k, i)

SpecCorrupt == Init /\ [][NextCorrupt]_vars


\* ================================================================ claims
\* The records on disk, segment by segment in increasing index (a segment is
\* in the active or in the archival directory), in file order.
RECURSIVE DiskLogFrom(_)
DiskLogFrom(k) ==
  IF k > MaxSeg THEN <<>> ELSE SegFile(k).recs \o DiskLogFrom(k + 1)

DiskLog == DiskLogFrom(0)

StrictlyIncreasing(recs) ==
  \A i, j \in 1..Len(recs) : i < j => recs[i].lsn < recs[j].lsn

\* Record r is in a segment file.
OnDisk(r) == \E i \in 1..Len(DiskLog) : DiskLog[i] = r

\* Record r is in a segment file within the bytes an fsync has covered.
Durable(r) ==
  \E k \in Idx : \E i \in 1..SegFile(k).syn : SegFile(k).recs[i] = r

\* C1: over the lifetime of the log directory (Close and reopen, crash and
\* reopen) the records on disk, read segment by segment in increasing index
\* and in file order, have strictly increasing LSNs.
C1_DiskLsnsStrictlyIncreasing == StrictlyIncreasing(DiskLog)

\* C2: in one session, under any interleaving of Write, housekeeper ticks and
\* Close, each record built takes the previously assigned LSN plus 1.
C2_SessionLsnsConsecutive ==
  \A i \in 2..Len(emitted) : emitted[i] = emitted[i - 1] + 1

\* The Appends acknowledged before the Sync of thread t began: no Write
\* returns while the housekeeper holds the lock.
AckedBefore(t) == IF t = "ctl" THEN snap ELSE acked

\* Thread t is at the return nil of a Sync.
SyncSucceeds(t) ==
  pc[t] = "s_reset" /\ op[t] \in {"Tick", "Close", "Sync(true)", "Sync(false)"}

\* C3: when a Sync returns nil with triggerFSync, every DATA record whose
\* Write returned nil before that Sync began is in a segment file, within what
\* an fsync has covered.
C3_AckedDurableAfterSync ==
  \A t \in {"hk", "ctl"} :
     (triggerFSync /\ SyncSucceeds(t)) => \A r \in AckedBefore(t) : Durable(r)

\* How often a record with LSN l is in the replayed stream.
Deliveries(l) == Cardinality({i \in 1..Len(delivered) : delivered[i].lsn = l})

\* C4: a RecoverFromCheckpoint that returns nil has delivered every LSN in
\* (checkpoint.lsn, lastLogSequenceNo] exactly once.
C4_ReplayCoversAssignedLsns ==
  [][(pc["ctl"] = "rc_replay" /\ recovered' = "ok") =>
       (\A l \in (anchor.lsn + 1)..lastLogSequenceNo : Deliveries(l) = 1)']_vars

\* C5: the stream one RecoverFromCheckpoint delivers has strictly increasing
\* LSNs.
C5_ReplayStrictlyIncreasing == StrictlyIncreasing(delivered)

\* C6: when a Write returns nil, the size of the active segment file plus
\* the buffered bytes (size prefixes included) is at most maxFileSize.
C6_SizeBoundAfterAppend ==
  [][(pc["app"] = "b_stage" /\ pc'["app"] = "idle" /\ acked' # acked)
       => (FileSize(CurFile) + Buffered <= maxFileSize)']_vars

NoRotationInProgress == \A t \in Threads : pc[t] \notin {"r_arch", "r_create"}

\* C8: from the empty directory on, the active directory holds a contiguous
\* range of indices that ends at currentSegmentIndex, the archival directory
\* holds exactly the indices below that range, and a rotation raises
\* currentSegmentIndex by exactly 1.
C8_ContiguousIndices ==
  /\ [](alive /\ NoRotationInProgress =>
          /\ Existing(activeDir) # {}
          /\ Existing(activeDir) =
               Min(Existing(activeDir))..currentSegmentIndex
          /\ Existing(archivalDir) = 0..(Min(Existing(activeDir)) - 1))
  /\ [][alive /\ alive' /\ opens' = opens =>
          currentSegmentIndex' \in
             {currentSegmentIndex, currentSegmentIndex + 1}]_vars

\* Two rotations have completed, the second with retention: the active
\* segment has index 2 and the archival directory is not empty.
C8_TwoRotationsDone ==
  /\ alive /\ Quiet
  /\ currentSegmentIndex = 2
  /\ activeDir[2].ex
  /\ Existing(archivalDir) # {}

\* The last segment file of the log directory holds a record that fails
\* verification.
ActiveTailCorrupt ==
  /\ Existing(activeDir) # {}
  /\ LET tail == activeDir[Max(Existing(activeDir))].recs
     IN \E i \in 1..Len(tail) : ~tail[i].crc

RotationFails(t) ==
  \/ pc[t] = "r_flush" /\ SyncFails
  \/ pc[t] = "r_close" /\ CloseFails
  \/ pc[t] = "r_arch" /\ ArchiveDue /\ ArchiveFails
  \/ pc[t] = "r_create" /\ (Faulty("Create") \/ Faulty("WriteHeader"))

InBuffer(r) == \E i \in 1..Len(bufferWriter.data) : bufferWriter.data[i] = r

\* C12: when a statement of the rotation fails inside a Write, the Write
\* returns at that statement without acknowledging or staging its record,
\* lastLogSequenceNo keeps the incremented value, and no other record has or
\* gets the LSN of the failed Write.
C12_FailedRotationKeepsLsn ==
  [][(op["app"] = "Write" /\ RotationFails("app")
       /\ pc'["app"] # pc["app"]) =>
       /\ pc'["app"] = "idle"
       /\ acked' = acked
       /\ bufferWriter'.data = bufferWriter.data \/ bufferWriter'.data = <<>>
       /\ ~InBuffer(rec["app"])
       /\ lastLogSequenceNo' = lastLogSequenceNo
       /\ lastLogSequenceNo >= rec["app"].lsn
       /\ Cardinality({i \in 1..Len(emitted) :
                         emitted[i] = rec["app"].lsn}) = 1]_vars


\* No segment file with an index in 0..currentSegmentIndex, in the log
\* directory or in the archival directory, holds a CHECKPOINT record.
NoCheckpointOnDisk ==
  \A k \in 0..currentSegmentIndex :
     /\ \A i \in 1..Len(activeDir[k].recs) :
           activeDir[k].recs[i].type # "CHECKPOINT"
     /\ \A i \in 1..Len(archivalDir[k].recs) :
           archivalDir[k].recs[i].type # "CHECKPOINT"

\* The step is a call of RecoverFromCheckpoint.
RecoverCalled ==
  /\ alive /\ pc["ctl"] = "idle"
  /\ \/ recovered # "err" /\ recovered' = "err"
     \/ op["ctl"] # "Recover" /\ op'["ctl"] = "Recover"

\* C13: RecoverFromCheckpoint called with no CHECKPOINT record on disk
\* returns an error and delivers no record; in the first session of a log
\* opened with triggerFSync = FALSE every call does.
C13_NoCheckpointNoRecovery ==
  [][RecoverCalled =>
       /\ NoCheckpointOnDisk =>
            recovered' = "err" /\ delivered' = <<>> /\ pc'["ctl"] = "idle"
       /\ (opens = 1 /\ ~triggerFSync) =>
            recovered' = "err" /\ delivered' = <<>> /\ pc'["ctl"] = "idle"]_vars

\* C13 witness: RecoverFromCheckpoint has returned an error on a log with
\* DATA records on disk and no CHECKPOINT record.
C13_RecoveryWithoutCheckpoint ==
  /\ alive /\ recovered = "err" /\ NoCheckpointOnDisk /\ ~triggerFSync
  /\ Len(activeDir[currentSegmentIndex].recs) > 0


\* The system call that thread t's next statement makes returns an error.
IoStepFails(t) ==
  \/ RotationFails(t)
  \/ pc[t] = "s_sync" /\ SyncFails
  \/ pc[t] = "b_stat" /\ StatFails
  \/ pc[t] = "b_stage" /\ bufferWriter.err
  \/ pc[t] = "cl_close" /\ CloseFails

\* C14: when a system call fails inside a Write, Sync or Close of a client,
\* the method returns at that statement with the error: a Write is not
\* acknowledged and a Close does not return nil.
C14_IoErrorReturned ==
  [][\A t \in {"app", "ctl"} :
       (IoStepFails(t) /\ pc'[t] # pc[t]) =>
          /\ pc'[t] = "idle"
          /\ acked' = acked
          /\ closeRet' # "ok"]_vars


\* Thread t builds a CHECKPOINT record in this step.
CheckpointEmitted(t) == rec'[t] # rec[t] /\ rec'[t].type = "CHECKPOINT"

\* A CHECKPOINT record in a segment file, in the bufio.Writer or in the hands
\* of a thread.
CheckpointAnywhere ==
  \/ \E k \in Idx : \E i \in 1..Len(activeDir[k].recs) :
        activeDir[k].recs[i].type = "CHECKPOINT"
  \/ \E k \in Idx : \E i \in 1..Len(archivalDir[k].recs) :
        archivalDir[k].recs[i].type = "CHECKPOINT"
  \/ \E i \in 1..Len(bufferWriter.data) :
        bufferWriter.data[i].type = "CHECKPOINT"
  \/ \E t \in Threads : rec[t].type = "CHECKPOINT"

\* C15: a Sync goes on to checkpoint() exactly when its Flush and fsync
\* succeeded, it was called with shouldCheckpointed = TRUE (as houseKeeping
\* and Close call it) and triggerFSync is set; a CHECKPOINT record is built
\* only there; and the first session of a log opened with
\* triggerFSync = FALSE has no CHECKPOINT record anywhere.
C15_CheckpointIffFsyncAndFlag ==
  [][/\ \A t \in Threads :
          /\ (pc[t] = "s_sync" /\ pc'[t] # "s_sync") =>
               (pc'[t] = "c_inc" <=>
                  /\ ~SyncFails /\ triggerFSync
                  /\ op[t] \in {"Sync(true)", "Tick", "Close"})
          /\ (pc'[t] = "c_inc" /\ pc[t] # "c_inc") => pc[t] = "s_sync"
          /\ (pc'[t] = "c_set" /\ pc[t] # "c_set") => pc[t] = "c_inc"
          /\ CheckpointEmitted(t) =>
               /\ pc[t] = "c_set" /\ triggerFSync
               /\ op[t] \in {"Sync(true)", "Tick", "Close"}
               /\ rec'[t].lsn = lastLogSequenceNo
     /\ (opens' = 1 /\ ~triggerFSync') => ~CheckpointAnywhere']_vars

\* C15 witness: a client's Sync(true) has flushed an acknowledged record and
\* built its CHECKPOINT record.
C15_SyncBuiltCheckpoint ==
  /\ op["ctl"] = "Sync(true)" /\ pc["ctl"] = "b_stat"
  /\ rec["ctl"].type = "CHECKPOINT"
  /\ acked # {} /\ \A r \in acked : OnDisk(r)


\* C16: once a checkpoint has been taken and no record has been appended
\* since (lastLogSequenceNo = lastCheckpointLSN), only a Write consumes the
\* next LSN: a Sync(true) takes no second checkpoint.
C16_CheckpointIdempotent ==
  [][(/\ lastCheckpointLSN > 0
      /\ lastLogSequenceNo = lastCheckpointLSN
      /\ opens' = opens
      /\ lastLogSequenceNo' # lastLogSequenceNo) =>
        pc'["app"] = "w_build" /\ pc["app"] = "idle"]_vars


\* C17: when Close returns nil the bufio.Writer is empty, and with
\* triggerFSync the CHECKPOINT record of its Sync(true), the one with LSN
\* lastCheckpointLSN, is in a segment file.
C17_CloseCheckpointOnDisk ==
  [][(closeRet # "ok" /\ closeRet' = "ok") =>
       /\ bufferWriter'.data = <<>>
       /\ triggerFSync =>
            \E k \in Idx : \E i \in 1..Len(activeDir'[k].recs) :
               /\ activeDir'[k].recs[i].type = "CHECKPOINT"
               /\ activeDir'[k].recs[i].lsn = lastCheckpointLSN']_vars


\* C18: when the Sync of a houseKeeping tick returns an error, the sync
\* timer is armed again.
C18_TimerRearmedAfterFailedSync ==
  [][(/\ op["hk"] = "Tick" /\ pc["hk"] = "s_sync" /\ SyncFails
      /\ pc'["hk"] # pc["hk"]) =>
        syncTimer']_vars


\* The records a Write can build.
DataRecords ==
  [lsn : 1..MaxLsn, type : {"DATA"}, dlen : DataLens, ep : 1..MaxOpens,
   crc : {TRUE}]

\* C19: a record that a Write has staged and acknowledged is eventually in
\* its segment file, whether or not the client calls anything again.
C19_StagedEventuallyWritten ==
  \A r \in DataRecords : (r \in acked /\ InBuffer(r)) ~> OnDisk(r)

\* C19 witness: in the first segment, where no rotation has flushed
\* anything, the Sync of a tick has written the last acknowledged record.
C19_TickWroteRecord ==
  /\ op["hk"] = "Tick" /\ pc["hk"] \in {"c_inc", "s_reset"}
  /\ currentSegmentIndex = 0
  /\ \E r \in acked : r.lsn = lastLogSequenceNo /\ OnDisk(r) /\ ~InBuffer(r)


\* C20: rotateLog closes the old segment with nothing left in the
\* bufio.Writer, the record that asked for the rotation is staged into the
\* writer of the new, open segment whose file holds only its header, and
\* every acknowledged record stays in the writer or in a segment file.
C20_RotationKeepsRecords ==
  [][/\ \A t \in Threads :
          /\ (pc[t] = "r_close" /\ pc'[t] = "r_inc") =>
               bufferWriter.data = <<>>
          /\ (pc[t] = "r_create" /\ pc'[t] = "b_stage") =>
               /\ bufferWriter'.data = <<>>
               /\ activeDir'[currentSegment'.seg] =
                    HeaderOnly(currentSegment'.seg)
               /\ ~currentSegment'.closed
          /\ (pc[t] = "b_stage" /\ pc'[t] # "b_stage" /\ ~bufferWriter.err) =>
               bufferWriter'.data = Append(bufferWriter.data, rec[t])
     /\ \A r \in acked' : InBuffer(r)' \/ OnDisk(r)']_vars


\* C21: whenever the log is open and no method is running, the one file
\* handle of the Wal object is open and is the handle of the segment file
\* with index currentSegmentIndex.
C21_OneSegmentOpenForWrite ==
  (alive /\ closeRet = "none" /\ ~cancelled /\ Quiet) =>
     /\ ~currentSegment.closed
     /\ currentSegment.seg = currentSegmentIndex
     /\ activeDir[currentSegmentIndex].ex


\* Sequence a is the beginning of sequence b.
IsPrefix(a, b) == Len(a) <= Len(b) /\ SubSeq(b, 1, Len(a)) = a

\* C22: a NewWal that succeeds leaves the files of the log directory as they
\* are (creating a header-only segment 0 when there is none), takes the
\* highest index among them as currentSegmentIndex with an open handle and
\* an empty writer on that file, and sets lastLogSequenceNo to the LSN of
\* the file's last record, 0 when it has none; what is written later into
\* the segment goes after what it held.
C22_OpenTakesHighestSegment ==
  [][/\ (opens' = opens + 1 /\ alive') =>
          /\ IF \A j \in Idx : ~activeDir[j].ex
             THEN /\ currentSegmentIndex' = 0
                  /\ activeDir' = [activeDir EXCEPT
                                     ![0] = [ex |-> TRUE, hdr |-> 0,
                                             recs |-> <<>>, syn |-> 0,
                                             tail |-> "none"]]
             ELSE activeDir' = activeDir
          /\ activeDir'[currentSegmentIndex'].ex
          /\ \A j \in Idx : activeDir'[j].ex => j <= currentSegmentIndex'
          /\ currentSegment' = [seg |-> currentSegmentIndex', closed |-> FALSE]
          /\ bufferWriter'.data = <<>>
          /\ LET recs == activeDir'[currentSegmentIndex'].recs
             IN lastLogSequenceNo' =
                  IF recs = <<>> THEN 0 ELSE recs[Len(recs)].lsn
     /\ \A k \in Idx :
          (/\ opens' = opens /\ alive /\ k = currentSegment.seg
           /\ activeDir[k].ex /\ activeDir'[k].ex) =>
             IsPrefix(activeDir[k].recs, activeDir'[k].recs)]_vars

\* C22 witness: the second NewWal has found two segment files with records
\* and has taken the higher one; a Write of the new session has since put
\* its record after the ones the segment held.
C22_ReopenedOnHighestSegment ==
  /\ opens = 2 /\ alive /\ Quiet
  /\ Existing(activeDir) = {0, 1} /\ currentSegmentIndex = 1
  /\ LET recs == activeDir[1].recs
     IN /\ Len(recs) >= 2
        /\ recs[1].ep = 1 /\ recs[Len(recs)].ep = 2


\* The segment indices whose file, in either directory, holds a CHECKPOINT
\* record.
SegmentsWithCheckpoint ==
  {k \in 0..currentSegmentIndex :
     \E i \in 1..Len(SegFile(k).recs) : SegFile(k).recs[i].type = "CHECKPOINT"}

\* The segment of the most recent checkpoint is in the archival directory
\* only.
LastCheckpointArchived ==
  /\ SegmentsWithCheckpoint # {}
  /\ ~activeDir[Max(SegmentsWithCheckpoint)].ex
  /\ archivalDir[Max(SegmentsWithCheckpoint)].ex

\* The records that follow the most recent checkpoint on disk: the rest of
\* its segment, then the segments up to currentSegmentIndex.
RECURSIVE RecordsFrom(_)
RecordsFrom(k) ==
  IF k > currentSegmentIndex THEN <<>> ELSE SegFile(k).recs \o RecordsFrom(k + 1)

AfterLastCheckpoint ==
  LET k == Max(SegmentsWithCheckpoint)
      recs == SegFile(k).recs
      i == Max({j \in 1..Len(recs) : recs[j].type = "CHECKPOINT"})
  IN SubSeq(recs, i + 1, Len(recs)) \o RecordsFrom(k + 1)

\* C23: with the segment of the most recent checkpoint in the archival
\* directory, RecoverFromCheckpoint takes that checkpoint as its anchor, and
\* its replay returns nil and delivers the records that follow the
\* checkpoint, archived segments first, in increasing segment index.
C23_RecoveryCrossesArchival ==
  [][/\ (RecoverCalled /\ LastCheckpointArchived) =>
          /\ op'["ctl"] = "Recover"
          /\ anchor'.seg = Max(SegmentsWithCheckpoint)
     /\ (/\ pc["ctl"] = "rc_replay" /\ pc'["ctl"] = "idle"
         /\ LastCheckpointArchived) =>
          /\ recovered' = "ok"
          /\ delivered' = AfterLastCheckpoint]_vars


\* C24: every segment file of the log directory and of the archival
\* directory starts with a header that ParseSegmentHeader accepts and whose
\* SegmentID is the index in the file's name.
C24_EverySegmentHasHeader ==
  \A k \in Idx :
     /\ activeDir[k].ex =>
          /\ ~ParseSegmentHeader(activeDir[k]).err
          /\ ParseSegmentHeader(activeDir[k]).SegmentID = k
     /\ archivalDir[k].ex =>
          /\ ~ParseSegmentHeader(archivalDir[k]).err
          /\ ParseSegmentHeader(archivalDir[k]).SegmentID = k


\* The open that follows finds the highest segment file of the log directory
\* ending in an incomplete frame.
TornTailAtOpen ==
  /\ Existing(activeDir) # {}
  /\ activeDir[Max(Existing(activeDir))].tail \in Tails

\* C25: a NewWal on a log directory whose highest segment ends in an
\* incomplete frame succeeds and sets lastLogSequenceNo to the LSN of the
\* last whole record of that segment, 0 when it has none.
C25_TornTailToleratedAtOpen ==
  [][(opens' = opens + 1 /\ TornTailAtOpen) =>
       /\ alive'
       /\ LET recs == activeDir[Max(Existing(activeDir))].recs
          IN lastLogSequenceNo' =
               IF recs = <<>> THEN 0 ELSE recs[Len(recs)].lsn]_vars


\* C26: every record the replay loop of RecoverFromCheckpoint delivers is a
\* DATA record; no CHECKPOINT record is replayed, whatever the housekeeper
\* writes between the search for the anchor and the replay.
C26_ReplayDeliversOnlyData ==
  [][(pc["ctl"] = "rc_replay" /\ pc'["ctl"] = "idle") =>
       \A i \in 1..Len(delivered') : delivered'[i].type = "DATA"]_vars

\* C9: once Close has returned nil, the record of every Write that ran beside
\* it and returned nil is in a segment file.
C9_RacingAppendOnDisk ==
  closeRet = "ok" => \A r \in raced : OnDisk(r)

\* C10: a thread that is about to run a statement of a Wal method (each reads
\* or writes lastLogSequenceNo, lastCheckpointLSN, currentSegment,
\* bufferWriter or currentSegmentIndex) holds wal.lock.
C10_FieldAccessUnderLock ==
  \A t \in Threads : pc[t] # "idle" => lock = t

====
